---- MODULE Spec2Model ----
(***************************************************************************)
(* SpotifyService (backend/services/spotify.py): a catalog client that     *)
(* wraps the provider's search, track, album and album-track-page calls.   *)
(* A provider response is a dict; a dict is a record whose DOMAIN is the   *)
(* set of keys present.  A provider call either returns a response or      *)
(* raises an error.                                                        *)
(***************************************************************************)
EXTENDS Integers, Sequences, FiniteSets, TLC

VARIABLES
  cfg,          \* config.SPOTIFY_CLIENT_ID / config.SPOTIFY_CLIENT_SECRET
  client,       \* self.client: FALSE until __init__ has built the handle
  pc,           \* "new" | "failed" | "idle" | "paging" | "returned"
  op,           \* the operation of the current / last invocation
  limit,        \* the limit argument of the current search
  reqs,         \* provider requests issued by the current invocation, in order
  resps,        \* album-track pages received by the current invocation, in order
  provider,     \* how the provider answers get_album_details' requests
  album,        \* the album response held by get_album_details
  tracks,       \* get_album_details' local list `tracks`
  offset,       \* get_album_details' local `offset`
  warned,       \* the ceiling warning has been printed
  provError,    \* the error a provider call of the current invocation raised, or ""
  log,          \* messages printed by the current invocation
  outcome,      \* "none" | "returned" | "raised"
  error,        \* the exception that left the operation ("" if none)
  result        \* the value returned

vars == <<cfg, client, pc, op, limit, reqs, resps, provider, album, tracks,
          offset, warned, provError, log, outcome, error, result>>

----------------------------------------------------------------------------
(* Bounds of the model *)

MaxLimit == 3        \* search limits 0..MaxLimit
MaxId == 2           \* ids of search / track-detail items
MaxTrackNo == 2      \* track numbers of search / track-detail items
ShortWindow == 2     \* page requests that a short page with a continuation may answer
MaxTotal == 1100     \* total_tracks of an album served page by page

(* Program constants *)

PageLimit == 50      \* album_tracks(album_id, limit=50, ...), offset += 50
Ceiling == 1000      \* if offset >= 1000

----------------------------------------------------------------------------
(* Python values *)

NoValue == [kind |-> "none"]                       \* None
ListValue(s) == [kind |-> "list", items |-> s]     \* a list of records

HasKey(d, k) == k \in DOMAIN d
Get(d, k, default) == IF HasKey(d, k) THEN d[k] ELSE default   \* d.get(k, default)

Falsy(v) == v = "None" \/ v = ""                   \* `not v` for a str or None

Creds == {"None", "", "set"}
Errors == {"SpotifyException", "ConnectionError"}

Min(a, b) == IF a < b THEN a ELSE b

----------------------------------------------------------------------------
(* Provider payloads.  An item's optional key is present or not. *)

ItemIds == 1..MaxId

\* items of a track search result and of a track fetch
TrackItems ==
  [id : ItemIds] \cup [id : ItemIds, track_number : 1..MaxTrackNo]

\* items of an album search result
AlbumItems ==
  [id : ItemIds] \cup [id : ItemIds, total_tracks : 1..MaxTrackNo]

SeqsUpTo(S, n) == UNION {[1..k -> S] : k \in 0..n}

\* the n album tracks from position o on; with `lacks`, the last one has
\* no track_number key
PageItems(o, n, lacks) ==
  [i \in 1..n |->
     IF lacks /\ i = n
       THEN [id |-> o + i - 1]
       ELSE [id |-> o + i - 1, track_number |-> o + i]]

Page(o, n, next, lacks) == [items |-> PageItems(o, n, lacks), next |-> next]

\* page sizes: empty, one item, one short of full, full
Sizes == {0, 1, PageLimit - 1, PageLimit}

IsShort(p) == p.next /\ Len(p.items) \notin {0, PageLimit}

AnyPages(o) ==
  {Page(o, n, nx, lk) : n \in Sizes, nx \in BOOLEAN, lk \in BOOLEAN}

\* album responses of a provider that answers anything within the page limit
ArbitraryAlbums == AnyPages(0)

\* album-track pages of that provider, as the answer to page request k + 1;
\* a short page that promises more answers only the first ShortWindow requests
ArbitraryPages(o, k) ==
  {p \in AnyPages(o) : IsShort(p) => k < ShortWindow}

\* the provider that serves an album of T tracks page by page
FaithfulAlbum(T) ==
  [items |-> PageItems(0, Min(T, PageLimit), FALSE),
   next |-> T > PageLimit,
   total_tracks |-> T]

FaithfulPage(T, o) ==
  LET n == IF o >= T THEN 0 ELSE Min(PageLimit, T - o)
  IN  Page(o, n, o + n < T, FALSE)

----------------------------------------------------------------------------
(* The mapping code *)

\* lines 27-40: the record search_tracks builds from an item.  Of the fields
\* copied key by key only the id is kept here; the dict has no track_number
\* entry, whatever the item holds.
TrackFromSearchItem(item) == [id |-> item.id]

ReversedTrackRecords(items) ==
  [i \in 1..Len(items) |-> TrackFromSearchItem(items[Len(items) + 1 - i])]

\* lines 24-43: tracks = []; for item in items: tracks.append(track)
SearchTrackRecords(items) ==
  [i \in 1..Len(items) |-> TrackFromSearchItem(items[i])]

\* lines 52-68
TrackFromDetail(track) ==
  [id |-> track.id, track_number |-> Get(track, "track_number", 1)]

\* lines 80-89
AlbumFromSearchItem(item) ==
  [id |-> item.id, total_tracks |-> Get(item, "total_tracks", 0)]

SearchAlbumRecords(items) ==
  [i \in 1..Len(items) |-> AlbumFromSearchItem(items[i])]

\* lines 107-120 and 137-150: item['track_number'] needs the key
Mappable(items) == \A i \in 1..Len(items) : HasKey(items[i], "track_number")

TrackFromAlbumItem(item) ==
  [id |-> item.id, track_number |-> item.track_number]

AlbumTrackRecords(items) ==
  [i \in 1..Len(items) |-> TrackFromAlbumItem(items[i])]

\* lines 164-174
AlbumRecord(a, trs) ==
  [kind |-> "album",
   total_tracks |-> Get(a, "total_tracks", 0),
   tracks |-> trs]

----------------------------------------------------------------------------
(* How an operation ends *)

Returned(v) == [outcome |-> "returned", error |-> "", result |-> v, log |-> <<>>]

SearchReportsNoResults(msg, e) ==
  [outcome |-> "returned", error |-> "", result |-> ListValue(<<>>),
   log |-> <<<<msg, e>>>>]

\* lines 44-46 and 93-95: print(...); raise
SearchFailure(msg, e) ==
  [outcome |-> "raised", error |-> e, result |-> NoValue, log |-> <<<<msg, e>>>>]

DetailReraises(msg, e) ==
  [outcome |-> "raised", error |-> e, result |-> NoValue, log |-> <<<<msg, e>>>>]

\* lines 69-71 and 175-177: print(...); return None
DetailFailure(msg, e) ==
  [outcome |-> "returned", error |-> "", result |-> NoValue, log |-> <<<<msg, e>>>>]

WarningMsg == "Warning: Stopped pagination at 1000 tracks"

Finish(o) ==
  /\ pc' = "returned"
  /\ outcome' = o.outcome
  /\ error' = o.error
  /\ result' = o.result
  /\ log' = log \o o.log

----------------------------------------------------------------------------
(* Construction, lines 10-18 *)

CredentialsBothMissing(id, secret) == Falsy(id) /\ Falsy(secret)

\* line 11
CredentialsMissing(id, secret) == Falsy(id) \/ Falsy(secret)

Init ==
  /\ cfg \in [id : Creds, secret : Creds]
  /\ client = FALSE
  /\ pc = "new"
  /\ op = "none"
  /\ limit = 0
  /\ reqs = <<>>
  /\ resps = <<>>
  /\ provider = [mode |-> "none"]
  /\ album = Page(0, 0, FALSE, FALSE)
  /\ tracks = <<>>
  /\ offset = 0
  /\ warned = FALSE
  /\ provError = ""
  /\ log = <<>>
  /\ outcome = "none"
  /\ error = ""
  /\ result = NoValue

Construct ==
  /\ pc = "new"
  /\ op' = "__init__"
  /\ IF CredentialsMissing(cfg.id, cfg.secret)
       THEN /\ pc' = "failed"
            /\ outcome' = "raised"
            /\ error' = "ValueError"
            /\ client' = FALSE
       ELSE /\ pc' = "idle"
            /\ outcome' = "returned"
            /\ error' = ""
            /\ client' = TRUE
  /\ UNCHANGED <<cfg, limit, reqs, resps, provider, album, tracks, offset,
                 warned, provError, log, result>>

\* the caller is done with the returned value and may call again
NextCall ==
  /\ pc = "returned"
  /\ pc' = "idle"
  /\ op' = "none"
  /\ limit' = 0
  /\ reqs' = <<>>
  /\ resps' = <<>>
  /\ provider' = [mode |-> "none"]
  /\ album' = Page(0, 0, FALSE, FALSE)
  /\ tracks' = <<>>
  /\ offset' = 0
  /\ warned' = FALSE
  /\ provError' = ""
  /\ log' = <<>>
  /\ outcome' = "none"
  /\ error' = ""
  /\ result' = NoValue
  /\ UNCHANGED <<cfg, client>>

----------------------------------------------------------------------------
(* search_tracks, lines 20-46, and search_albums, lines 73-95 *)

SearchRequest(type, n) == [api |-> "search", type |-> type, limit |-> n]

SearchTracks ==
  /\ pc = "idle" /\ client
  /\ op' = "search_tracks"
  /\ \E n \in 0..MaxLimit :
       /\ limit' = n
       /\ reqs' = <<SearchRequest("track", n)>>
       /\ \/ \E e \in Errors :
               /\ provError' = e
               /\ resps' = <<>>
               /\ Finish(SearchFailure("Spotify search error", e))
          \/ \E items \in SeqsUpTo(TrackItems, n) :
               /\ provError' = ""
               /\ resps' = <<items>>
               /\ Finish(Returned(ListValue(SearchTrackRecords(items))))
  /\ UNCHANGED <<cfg, client, provider, album, tracks, offset, warned>>

SearchAlbums ==
  /\ pc = "idle" /\ client
  /\ op' = "search_albums"
  /\ \E n \in 0..MaxLimit :
       /\ limit' = n
       /\ reqs' = <<SearchRequest("album", n)>>
       /\ \/ \E e \in Errors :
               /\ provError' = e
               /\ resps' = <<>>
               /\ Finish(SearchFailure("Spotify album search error", e))
          \/ \E items \in SeqsUpTo(AlbumItems, n) :
               /\ provError' = ""
               /\ resps' = <<items>>
               /\ Finish(Returned(ListValue(SearchAlbumRecords(items))))
  /\ UNCHANGED <<cfg, client, provider, album, tracks, offset, warned>>

(* get_track_details, lines 48-71 *)

GetTrackDetails ==
  /\ pc = "idle" /\ client
  /\ op' = "get_track_details"
  /\ reqs' = <<[api |-> "track"]>>
  /\ \/ \E e \in Errors :
          /\ provError' = e
          /\ resps' = <<>>
          /\ Finish(DetailFailure("Error fetching track details", e))
     \/ \E track \in TrackItems :
          /\ provError' = ""
          /\ resps' = <<track>>
          /\ Finish(Returned([kind |-> "track", track |-> TrackFromDetail(track)]))
  /\ UNCHANGED <<cfg, client, limit, provider, album, tracks, offset, warned>>

----------------------------------------------------------------------------
(* get_album_details, lines 97-177 *)

\* the records appended before item['track_number'] raises KeyError
MappedPrefix(items) ==
  LET bad == CHOOSE i \in 1..Len(items) :
               /\ ~HasKey(items[i], "track_number")
               /\ \A j \in 1..(i - 1) : HasKey(items[j], "track_number")
  IN  AlbumTrackRecords(SubSeq(items, 1, bad - 1))

OffsetFromZero(trs) == 0

\* line 125: offset = len(tracks)
InitialOffset(trs) == Len(trs)

\* line 128: if album['tracks'].get('next')
AlbumHasNext(a) == a.next

\* line 154: if not next_page.get('next'): break
PageHasNext(p) == p.next

OffsetPlusPageLength(o, p) == o + Len(p.items)

\* line 157: offset += 50 (next_page is in scope, and is not used)
NextOffset(o, p) == o + PageLimit

CeilingPassed(o) == o > Ceiling

\* line 160: if offset >= 1000
CeilingReached(o) == o >= Ceiling

PageRequest(o) == [api |-> "album_tracks", limit |-> PageLimit, offset |-> o]

AlbumMsg == "Error fetching album details"

\* lines 100-128 and 164-174, once self.client.album has answered with a
AlbumFetched(a) ==
  /\ album' = a
  /\ IF ~Mappable(a.items)
       THEN /\ tracks' = MappedPrefix(a.items)
            /\ offset' = 0
            /\ Finish(DetailFailure(AlbumMsg, "KeyError"))
       ELSE LET trs == AlbumTrackRecords(a.items)
            IN  /\ tracks' = trs
                /\ offset' = InitialOffset(trs)
                /\ IF AlbumHasNext(a)
                     THEN /\ pc' = "paging"
                          /\ outcome' = "none"
                          /\ error' = ""
                          /\ result' = NoValue
                          /\ log' = <<>>
                     ELSE Finish(Returned(AlbumRecord(a, trs)))

GetAlbumDetails ==
  /\ pc = "idle" /\ client
  /\ op' = "get_album_details"
  /\ reqs' = <<[api |-> "album"]>>
  /\ resps' = <<>>
  /\ \/ \E e \in Errors :
          /\ provider' = [mode |-> "arbitrary"]
          /\ provError' = e
          /\ Finish(DetailFailure(AlbumMsg, e))
          /\ UNCHANGED <<album, tracks, offset>>
     \/ \E a \in ArbitraryAlbums :
          /\ provider' = [mode |-> "arbitrary"]
          /\ provError' = ""
          /\ AlbumFetched(a)
     \/ \E T \in 0..MaxTotal :
          /\ provider' = [mode |-> "faithful", total |-> T]
          /\ provError' = ""
          /\ AlbumFetched(FaithfulAlbum(T))
  /\ UNCHANGED <<cfg, client, limit, warned>>

\* lines 133-162 and 164-174, once self.client.album_tracks has answered with p
PageFetched(p) ==
  /\ resps' = Append(resps, [n |-> Len(p.items), next |-> p.next,
                            valid |-> Mappable(p.items)])
  /\ IF Len(p.items) = 0
       THEN /\ Finish(Returned(AlbumRecord(album, tracks)))
            /\ UNCHANGED <<tracks, offset, warned>>
       ELSE IF ~Mappable(p.items)
       THEN /\ tracks' = tracks \o MappedPrefix(p.items)
            /\ Finish(DetailFailure(AlbumMsg, "KeyError"))
            /\ UNCHANGED <<offset, warned>>
       ELSE LET trs == tracks \o AlbumTrackRecords(p.items)
            IN  /\ tracks' = trs
                /\ IF ~PageHasNext(p)
                     THEN /\ Finish(Returned(AlbumRecord(album, trs)))
                          /\ UNCHANGED <<offset, warned>>
                     ELSE /\ offset' = NextOffset(offset, p)
                          /\ IF CeilingReached(offset')
                               THEN /\ warned' = TRUE
                                    /\ Finish([Returned(AlbumRecord(album, trs))
                                                 EXCEPT !.log = <<<<WarningMsg, "">>>>])
                               ELSE /\ UNCHANGED <<pc, outcome, error, result,
                                                   log, warned>>

\* one turn of the `while True` loop: line 131, then lines 133-162
FetchPage ==
  /\ pc = "paging"
  /\ reqs' = Append(reqs, PageRequest(offset))
  /\ \/ /\ provider.mode = "arbitrary"
        /\ \E e \in Errors :
             /\ provError' = e
             /\ Finish(DetailFailure(AlbumMsg, e))
             /\ UNCHANGED <<resps, tracks, offset, warned>>
     \/ /\ provider.mode = "arbitrary"
        /\ provError' = ""
        /\ \E p \in ArbitraryPages(offset, Len(resps)) : PageFetched(p)
     \/ /\ provider.mode = "faithful"
        /\ provError' = ""
        /\ PageFetched(FaithfulPage(provider.total, offset))
  /\ UNCHANGED <<cfg, client, op, limit, provider, album>>

----------------------------------------------------------------------------

Next ==
  \/ Construct
  \/ SearchTracks
  \/ SearchAlbums
  \/ GetTrackDetails
  \/ GetAlbumDetails
  \/ FetchPage
  \/ NextCall

Spec == Init /\ [][Next]_vars

\* the blocking provider call of the loop answers (or raises), so the loop
\* takes its next turn
FairSpec == Spec /\ WF_vars(FetchPage)

----------------------------------------------------------------------------
(* Properties *)

AlbumOp == op = "get_album_details"
AlbumReturned == pc = "returned" /\ AlbumOp
RecordReturned == AlbumReturned /\ outcome = "returned" /\ result.kind = "album"

\* the album-track-page requests issued so far (request 1 is the album fetch)
PageRequests == IF AlbumOp THEN SubSeq(reqs, 2, Len(reqs)) ELSE <<>>

\* the provider answered with valid track items only
ValidItems ==
  /\ Mappable(album.items)
  /\ \A i \in 1..Len(resps) : resps[i].valid

\* C1: served page by page an album of more than 50 tracks, with no failure
\* and no stop at the ceiling, get_album_details returns a record whose track
\* list is as long as the declared total_tracks.
C1_FullListing ==
  (/\ AlbumReturned
   /\ provider.mode = "faithful"
   /\ provider.total > PageLimit
   /\ ~warned)
  => /\ RecordReturned
     /\ result.total_tracks = provider.total
     /\ Len(result.tracks) = result.total_tracks

C1_Witness ==
  /\ RecordReturned
  /\ provider.mode = "faithful"
  /\ provider.total = Ceiling
  /\ ~warned
  /\ Len(result.tracks) = Ceiling
  /\ Len(PageRequests) > 2

\* C2: whatever the provider answers, every album-track-page request carries
\* an offset strictly below 1000.
C2_OffsetsBelowCeiling ==
  \A i \in 1..Len(PageRequests) : PageRequests[i].offset < Ceiling

C2_Witness ==
  /\ AlbumOp
  /\ \E i \in 1..Len(PageRequests) : PageRequests[i].offset = Ceiling - 1

\* every response of the current get_album_details was a non-empty page of
\* valid items with a continuation
AlwaysContinued ==
  /\ AlbumOp
  /\ provError = ""
  /\ ValidItems
  /\ album.next
  /\ Len(album.items) > 0
  /\ \A i \in 1..Len(resps) : resps[i].n > 0 /\ resps[i].next

\* C3: the pagination loop always ends; against a provider that always
\* answers a non-empty page with a continuation it ends at the ceiling, with
\* the warning printed, and returns the album record holding the tracks
\* accumulated so far.
C3_StopsAtCeiling ==
  /\ (pc = "paging") ~> (pc = "returned")
  /\ [](AlbumReturned /\ AlwaysContinued
          => /\ warned
             /\ log = <<<<WarningMsg, "">>>>
             /\ offset >= Ceiling
             /\ offset < Ceiling + PageLimit
             /\ RecordReturned
             /\ result.tracks = tracks)

C3_Witness ==
  /\ RecordReturned
  /\ AlwaysContinued
  /\ warned
  /\ Len(PageRequests) * PageLimit = Ceiling

\* C4: get_track_details and get_album_details never raise; when a provider
\* call raised (the track fetch, the album fetch or a later page fetch) the
\* failure is logged and None is returned, never a partial listing.
C4_DetailsNeverRaise ==
  (pc = "returned" /\ op \in {"get_track_details", "get_album_details"})
  => /\ outcome = "returned"
     /\ error = ""
     /\ provError # ""
          => /\ result.kind = "none"
             /\ Len(log) = 1
             /\ log[1][2] = provError

C4_Witness ==
  /\ AlbumReturned
  /\ provError # ""
  /\ Len(PageRequests) > 1
  /\ Len(tracks) > PageLimit
  /\ outcome = "returned"
  /\ result.kind = "none"

\* C5: a search issues exactly one provider search call; when it fails the
\* failure is logged and the same failure reaches the caller, and no list
\* (so no empty list) is returned.
C5_SearchPropagates ==
  (pc = "returned" /\ op \in {"search_tracks", "search_albums"})
  => /\ Len(reqs) = 1
     /\ reqs[1].api = "search"
     /\ reqs[1].type = (IF op = "search_tracks" THEN "track" ELSE "album")
     /\ provError # ""
          => /\ outcome = "raised"
             /\ error = provError
             /\ result.kind = "none"
             /\ Len(log) = 1
             /\ log[1][2] = provError

C5_Witness ==
  /\ pc = "returned"
  /\ op = "search_albums"
  /\ provError = "ConnectionError"
  /\ outcome = "raised"
  /\ error = "ConnectionError"

\* C6: with the client id or the client secret missing or empty, construction
\* raises the configuration error, no request has been issued, no handle
\* exists and no operation can be invoked afterwards.
C6_ConstructionFailsFirst ==
  (/\ pc # "new"
   /\ \/ cfg.id \in {"None", ""}
      \/ cfg.secret \in {"None", ""})
  => /\ pc = "failed"
     /\ outcome = "raised"
     /\ error = "ValueError"
     /\ reqs = <<>>
     /\ ~client
     /\ ~ENABLED Next

C6_Witness ==
  /\ pc = "failed"
  /\ cfg.id = "set"
  /\ cfg.secret = ""
  /\ error = "ValueError"

\* the track number a record must carry for provider item `item`
NumberedAs(rec, item) ==
  /\ HasKey(rec, "track_number")
  /\ ~HasKey(item, "track_number") => rec.track_number = 1

\* C7: every Track record returned (by search_tracks, by get_track_details,
\* in get_album_details' listing) carries a track number, which is 1 when the
\* provider item has none; an item without a track number never makes the
\* operation fail or return None.
C7_EveryTrackNumbered ==
  pc = "returned" /\ provError = ""
  => /\ op = "search_tracks"
          => /\ outcome = "returned"
             /\ \A i \in 1..Len(result.items) :
                  NumberedAs(result.items[i], resps[1][i])
     /\ op = "get_track_details"
          => /\ outcome = "returned"
             /\ result.kind = "track"
             /\ NumberedAs(result.track, resps[1])
     /\ op = "get_album_details"
          => /\ RecordReturned
             /\ \A i \in 1..Len(result.tracks) :
                  HasKey(result.tracks[i], "track_number")

RECURSIVE FetchedRecords(_)
FetchedRecords(k) ==
  IF k = 0
    THEN <<>>
    ELSE FetchedRecords(k - 1)
           \o AlbumTrackRecords(PageItems(PageRequests[k].offset, resps[k].n, FALSE))

\* C9: no page request without a continuation on the album response; page
\* requests go out at offsets each exactly 50 above the previous one; none
\* follows an empty page or a page without a continuation; the returned
\* tracks are the embedded first page followed by the fetched pages in order.
C9_PaginationProtocol ==
  AlbumOp
  => /\ ~album.next => PageRequests = <<>>
     /\ \A i \in 1..(Len(PageRequests) - 1) :
          /\ PageRequests[i + 1].offset = PageRequests[i].offset + PageLimit
          /\ resps[i].n > 0
          /\ resps[i].next
     /\ RecordReturned
          => result.tracks =
               AlbumTrackRecords(album.items) \o FetchedRecords(Len(resps))

C9_Witness ==
  /\ RecordReturned
  /\ Len(PageRequests) = 3
  /\ resps[1].n = 1
  /\ resps[2].n = PageLimit - 1
  /\ ~resps[3].next
  /\ Len(result.tracks) > 2 * PageLimit

\* C10: with pages of at most 50 items, the returned track list never holds
\* more than 1000 tracks.
C10_AtMostCeilingTracks ==
  RecordReturned => Len(result.tracks) <= Ceiling

====
